---- MODULE Spec2Model ----
(***************************************************************************)
(* Single-decree Paxos replica of src/src/paxos.rs.                        *)
(*                                                                         *)
(* Every replica is one Paxos object: proposer (propose, accept) and       *)
(* acceptor (on_prepare, on_accept) over one state file.  propose is an    *)
(* async fn over &mut self with two join_all suspension points, so it is   *)
(* three steps here: propose_prepare (lines 151-176), propose_accept       *)
(* (lines 176-268) and accept_return (lines 270-306 and 221-236).  The     *)
(* acceptor handlers run on the peer between those steps.  Because propose *)
(* borrows the Paxos object mutably, the peer's handlers cannot run while  *)
(* the peer itself is inside propose: such a request waits or times out.   *)
(***************************************************************************)
EXTENDS Integers, Sequences, FiniteSets, TLC

\* ------------------------------------------------------------------ bounds

\* Largest cluster (length of the acceptors list) explored.
MaxN ==
  3

\* Total number of propose calls over the whole cluster.
MaxProposes ==
  3

\* Total number of faults: replica crashes, state-file writes that fail
\* (write or sync_all), and RPCs that fail although the peer could answer
\* (connect failure, transport error, timeout).
MaxFaults ==
  2

\* The size of a run: replicas, propose calls and faults together, so that a
\* larger cluster is explored with fewer calls and faults.
MaxLoad ==
  6

\* The highest proposal id in a state file an earlier run left behind.
MaxStoredId ==
  2

\* The requests an AcceptorServer is sent.
MaxRequests ==
  2

\* Values a caller may hand to propose: byte strings, the empty one included.
Values ==
  {<<>>, <<1>>, <<2, 3>>}

\* ---------------------------------------------------------------- helpers

\* Option<T>: None, or Some(v).  Some(<<>>) differs from None.
None ==
  <<>>

Some(v) ==
  <<v>>

Unwrap(o) ==
  o[1]

Max(a, b) ==
  IF a >= b THEN a ELSE b

Min(a, b) ==
  IF a <= b THEN a ELSE b

\* ------------------------------------------------------------- state file

\* The state file is a sequence of cells: cell 1 is the 8-byte little-endian
\* proposal id, the cells after it are the bytes of the value.  Ids stay
\* below 256 here, so a partly written header already reads as the new id.

\* One write-and-sync of a buffer at offset 0: it succeeds, or it fails after
\* `written` cells of the buffer reached the file.
DiskOk ==
  [ok |-> TRUE, written |-> 0]

\* The longest buffer on_accept writes: the header cell and the longest value.
MaxCells ==
  1 + CHOOSE n \in {Len(v) : v \in Values} : \A v \in Values : Len(v) <= n

DiskOutcomes ==
  {DiskOk} \cup {[ok |-> FALSE, written |-> k] : k \in 0..MaxCells}

\* seek(Start(0)), then write: the buffer overwrites the front of the file and
\* the file is never truncated, so what lay beyond the buffer stays.
write_at_start(file, buffer, n) ==
  SubSeq(buffer, 1, n) \o SubSeq(file, n + 1, Len(file))

write_state_file(file, buffer, disk) ==
  IF disk.ok THEN write_at_start(file, buffer, Len(buffer))
  ELSE write_at_start(file, buffer, Min(disk.written, Len(buffer)))

\* read_state: None on an empty file, otherwise the id and the remaining
\* bytes, no bytes meaning no value.
read_state(file) ==
  IF file = <<>> THEN None
  ELSE Some([proposal_id |-> Head(file),
             proposal_value |-> IF Tail(file) = <<>>
                                THEN None
                                ELSE Some(Tail(file))])

\* --------------------------------------------------------------- messages

PrepareRequest(pid) ==
  [proposal_id |-> pid]

PrepareResponse(pid, value) ==
  [proposal_id |-> pid, proposal_value |-> value]

AcceptRequest(pid, value) ==
  [proposal_id |-> pid, proposal_value |-> value]

AcceptResponse(pid, value) ==
  [proposal_id |-> pid, proposal_value |-> value]

\* The future of one RPC: not created, in flight, failed, or answered.
NoRpc ==
  [kind |-> "none"]

Request(message) ==
  [kind |-> "request", message |-> message]

\* A transport error (no connection, timeout, lost reply).
RpcError ==
  [kind |-> "error"]

\* The acceptor's Err(String) reply.
ErrorReply ==
  [kind |-> "error_reply"]

Response(message) ==
  [kind |-> "response", message |-> message]

\* Result<T> of an acceptor operation.
Ok(response) ==
  [ok |-> TRUE, response |-> response]

Err ==
  [ok |-> FALSE]

\* --------------------------------------------------------------- acceptor

\* The acceptor part of a Paxos object.
AcceptorState(pid, value, file) ==
  [proposal_id |-> pid, proposal_value |-> value, state_file |-> file]

\* Whether on_prepare takes the promising branch.
prepare_promises(self, message) ==
  message.proposal_id > self.proposal_id

\* on_prepare: the id is raised in memory first, then written and synced;
\* a failing write returns the error and leaves the raised id in memory.
on_prepare(self, message, disk) ==
  IF prepare_promises(self, message)
  THEN LET raised == [self EXCEPT !.proposal_id = message.proposal_id]
           after == [raised EXCEPT !.state_file =
                       write_state_file(self.state_file,
                                        <<message.proposal_id>>, disk)]
       IN IF disk.ok
          THEN [self |-> after, wrote |-> "ok", buffer |-> 1,
                result |-> Ok(PrepareResponse(after.proposal_id,
                                              after.proposal_value))]
          ELSE [self |-> after, wrote |-> "failed", buffer |-> 1,
                result |-> Err]
  ELSE [self |-> self, wrote |-> "none", buffer |-> 0,
        result |-> Ok(PrepareResponse(self.proposal_id, self.proposal_value))]

\* on_accept without the comparison: every request is accepted.
accept_rejects_never(self, message) ==
  FALSE

\* Whether on_accept takes the rejecting branch.
accept_rejects(self, message) ==
  message.proposal_id < self.proposal_id

\* on_accept: a lower id is answered with the current state; otherwise id
\* and value are set in memory, then id and value bytes are written at
\* offset 0 and synced.
on_accept(self, message, disk) ==
  IF accept_rejects(self, message)
  THEN [self |-> self, wrote |-> "none", buffer |-> 0,
        result |-> Ok(AcceptResponse(self.proposal_id, self.proposal_value))]
  ELSE LET set == [self EXCEPT !.proposal_id = message.proposal_id,
                               !.proposal_value = Some(message.proposal_value)]
           buffer == <<set.proposal_id>> \o Unwrap(set.proposal_value)
           after == [set EXCEPT !.state_file =
                       write_state_file(self.state_file, buffer, disk)]
       IN IF disk.ok
          THEN [self |-> after, wrote |-> "ok", buffer |-> Len(buffer),
                result |-> Ok(AcceptResponse(after.proposal_id, None))]
          ELSE [self |-> after, wrote |-> "failed", buffer |-> Len(buffer),
                result |-> Err]

\* --------------------------------------------------------------- proposer

majority(n) ==
  n \div 2 + 1

\* Lines 184-210: the tally of the prepare results, in the order of the
\* futures.  A later reply that carries a value replaces an earlier one.
RECURSIVE prepare_tally(_, _)
prepare_tally(results, acc) ==
  IF results = <<>> THEN acc
  ELSE LET result == Head(results)
       IN prepare_tally(Tail(results),
            IF result.kind = "response"
            THEN [response_count |-> acc.response_count + 1,
                  highest_proposal_id |->
                    Max(acc.highest_proposal_id, result.message.proposal_id),
                  accepted_value |->
                    IF result.message.proposal_value # None
                    THEN result.message.proposal_value
                    ELSE acc.accepted_value]
            ELSE acc)

\* Lines 272-297: the tally of the accept results; the first reply with an id
\* above current_proposal_id ends the call.
RECURSIVE accept_tally(_, _, _)
accept_tally(results, current, count) ==
  IF results = <<>> THEN [preempted |-> FALSE, response_count |-> count]
  ELSE LET result == Head(results)
       IN IF result.kind = "response"
          THEN IF current < result.message.proposal_id
               THEN [preempted |-> TRUE, response_count |-> count]
               ELSE accept_tally(Tail(results), current, count + 1)
          ELSE accept_tally(Tail(results), current, count)

\* The check with the proposer itself left out of the count.
quorum_missing_without_self(response_count, n) ==
  response_count < majority(n)

\* Line 213 and line 299.
quorum_missing(response_count, n) ==
  response_count < majority(n) - 1

\* Line 219.
accept_proposal_id(current, highest_proposal_id) ==
  Max(current, highest_proposal_id)

\* Lines 178-182 and 263-268: the id the local acceptor is called with.
local_request_id(current, promised) ==
  promised

\* ------------------------------------------------------------------ state

VARIABLES
  acceptors,            \* Paxos.acceptors: the peer list, the same on every replica
  current_proposal_id,  \* Paxos.current_proposal_id
  acceptor_clients,     \* Paxos.acceptor_clients: the peers with a cached client
  proposal_id,          \* Paxos.proposal_id
  proposal_value,       \* Paxos.proposal_value
  state_file,           \* the content of acceptor_<id>.state
  pc,                   \* where the replica's propose call stands
  rpc,                  \* rpc[r][q]: the future of r's request to q
  broken,               \* <<r, q>>: r's cached client to q lost its connection
  call,                 \* the replica's current or last propose call
  ok_values,            \* the values of the propose calls that returned Ok
  phase2,               \* [proposal_id, proposal_value] of every accept() that returned Ok
  stored,               \* per replica: the last record written and synced
  proposes,             \* number of propose calls so far
  faults,               \* number of faults so far
  mutex,                \* AcceptorServer.acceptor's Mutex: 0, or the task holding it
  tasks                 \* the handler tasks of an AcceptorServer, in order of arrival

vars ==
  <<acceptors, current_proposal_id, acceptor_clients, proposal_id,
    proposal_value, state_file, pc, rpc, broken, call, ok_values, phase2,
    stored, proposes, faults, mutex, tasks>>

\* What a run has used of MaxLoad, and whether it may use `more`.
Load ==
  Len(acceptors) + proposes + faults

MayFail(more) ==
  faults + more <= MaxFaults /\ Load + more <= MaxLoad

\* A propose call whose connects fail `more` times.
MayPropose(more) ==
  /\ proposes < MaxProposes
  /\ faults + more <= MaxFaults
  /\ Load + 1 + more <= MaxLoad

\* The replicas of the cluster: acceptors[i] is the address of replica i.
Nodes ==
  1..Len(acceptors)

\* Lines 156-160 and 242-246: the acceptors other than this one, in order.
remote_acceptors(r) ==
  SelectSeq(acceptors, LAMBDA a : a # r)

Range(seq) ==
  {seq[i] : i \in 1..Len(seq)}

AcceptorOf(r) ==
  AcceptorState(proposal_id[r], proposal_value[r], state_file[r])

\* The results join_all returns: one per future created, in acceptors order.
RECURSIVE results_of(_, _)
results_of(futures, peers) ==
  IF peers = <<>> THEN <<>>
  ELSE IF futures[Head(peers)].kind = "none"
       THEN results_of(futures, Tail(peers))
       ELSE <<futures[Head(peers)]>> \o results_of(futures, Tail(peers))

\* A propose call: its argument and locals (value, accepted_value), the id of
\* its Prepare requests, the result the local on_accept returned (and the
\* call dropped), and how the call ended.  The locals die with the call.
NoCall ==
  [value |-> None, accepted_value |-> None, prepare_id |-> 0,
   local_accept_ok |-> TRUE, result |-> "none"]

\* The call of r has ended with `result`.
Returned(r, result) ==
  [call EXCEPT ![r] = [NoCall EXCEPT !.result = result]]

\* The value accept() was called with (lines 221-229).
accept_value(c) ==
  IF c.accepted_value = None THEN Unwrap(c.value) ELSE Unwrap(c.accepted_value)

\* Paxos::new on a missing state file, on every replica of a cluster of
\* 1..MaxN replicas.
Init ==
  /\ acceptors \in {[i \in 1..n |-> i] : n \in 1..MaxN}
  /\ current_proposal_id = [r \in Nodes |-> 0]
  /\ acceptor_clients = [r \in Nodes |-> {}]
  /\ proposal_id = [r \in Nodes |-> 0]
  /\ proposal_value = [r \in Nodes |-> None]
  /\ state_file = [r \in Nodes |-> <<>>]
  /\ pc = [r \in Nodes |-> "idle"]
  /\ rpc = [r \in Nodes |-> [q \in Nodes |-> NoRpc]]
  /\ broken = {}
  /\ call = [r \in Nodes |-> NoCall]
  /\ ok_values = {}
  /\ phase2 = {}
  /\ stored = [r \in Nodes |-> None]
  /\ proposes = 0
  /\ faults = 0
  /\ mutex = 0
  /\ tasks = <<>>

\* ---------------------------------------------------------------- actions

\* The peers a call holds a client for after get_or_init_client ran for each
\* of them: the cached ones and those in `connected`, whose connect succeeded.
ClientsAfter(r, connected) ==
  acceptor_clients[r] \cup connected

\* The peers get_or_init_client has to connect to.
Connectable(r) ==
  {q \in Range(remote_acceptors(r)) : q \notin acceptor_clients[r]}

\* Connects that fail.
ConnectFailures(r, connected) ==
  Cardinality(Connectable(r) \ connected)

\* A disk outcome is only drawn for an operation that writes, and a failing
\* one stops within the buffer.
DiskChoice(out, disk) ==
  /\ out.wrote = "none" => disk = DiskOk
  /\ out.wrote = "failed" => disk.written <= out.buffer

Failed(out) ==
  IF out.wrote = "failed" THEN 1 ELSE 0

\* No record counts as stored once a write or sync has failed, until the
\* next one succeeds.
Dirty ==
  <<"dirty", "dirty">>

IsDirty(record) ==
  Len(record) = 2

\* The record a successful write and sync leaves behind.
StoredAfter(before, out) ==
  IF out.wrote = "ok"
  THEN Some([proposal_id |-> out.self.proposal_id,
             proposal_value |-> out.self.proposal_value])
  ELSE IF out.wrote = "failed" THEN Dirty
  ELSE before

\* Lines 151-176: propose(value) up to join_all of the prepare futures.
propose_prepare(r, value, connected) ==
  /\ pc[r] = "idle"
  /\ connected \subseteq Connectable(r)
  /\ MayPropose(ConnectFailures(r, connected))
  /\ LET pid == current_proposal_id[r] + 1
         clients == ClientsAfter(r, connected)
     IN /\ current_proposal_id' = [current_proposal_id EXCEPT ![r] = pid]
        /\ acceptor_clients' = [acceptor_clients EXCEPT ![r] = clients]
        /\ rpc' = [rpc EXCEPT ![r] =
                     [q \in Nodes |->
                        IF q \in Range(remote_acceptors(r)) /\ q \in clients
                        THEN Request(PrepareRequest(pid))
                        ELSE NoRpc]]
        /\ call' = [call EXCEPT ![r] =
                      [NoCall EXCEPT !.value = Some(value), !.prepare_id = pid,
                                     !.result = "running"]]
  /\ pc' = [pc EXCEPT ![r] = "prepare"]
  /\ proposes' = proposes + 1
  /\ faults' = faults + ConnectFailures(r, connected)
  /\ UNCHANGED <<mutex, tasks, acceptors, proposal_id, proposal_value, state_file, broken,
                 ok_values, phase2, stored>>

\* The acceptor q serves r's request: it may when it is not inside its own
\* propose and the connection the request came over still stands.
Serves(r, q) ==
  /\ rpc[r][q].kind = "request"
  /\ pc[q] = "idle"
  /\ <<r, q>> \notin broken

\* What the server hands back: the response, or the error as a string.
Reply(result) ==
  IF result.ok THEN Response(result.response) ELSE ErrorReply

\* q's acceptor state after a handler returned `out`.
AcceptorUpdate(q, out, disk) ==
  /\ DiskChoice(out, disk)
  /\ proposal_id' = [proposal_id EXCEPT ![q] = out.self.proposal_id]
  /\ proposal_value' = [proposal_value EXCEPT ![q] = out.self.proposal_value]
  /\ state_file' = [state_file EXCEPT ![q] = out.self.state_file]
  /\ stored' = [stored EXCEPT ![q] = StoredAfter(@, out)]
  /\ Failed(out) = 0 \/ MayFail(1)
  /\ faults' = faults + Failed(out)

\* AcceptorService::prepare on q for r's request: on_prepare under the lock.
AcceptorService_prepare(r, q, disk) ==
  /\ pc[r] = "prepare"
  /\ Serves(r, q)
  /\ LET out == on_prepare(AcceptorOf(q), rpc[r][q].message, disk)
     IN /\ AcceptorUpdate(q, out, disk)
        /\ rpc' = [rpc EXCEPT ![r][q] = Reply(out.result)]
  /\ UNCHANGED <<mutex, tasks, acceptors, current_proposal_id, acceptor_clients, pc,
                 broken, call, ok_values, phase2, proposes>>

\* AcceptorService::accept on q for r's request: on_accept under the lock.
AcceptorService_accept(r, q, disk) ==
  /\ pc[r] = "accept"
  /\ Serves(r, q)
  /\ LET out == on_accept(AcceptorOf(q), rpc[r][q].message, disk)
     IN /\ AcceptorUpdate(q, out, disk)
        /\ rpc' = [rpc EXCEPT ![r][q] = Reply(out.result)]
  /\ UNCHANGED <<mutex, tasks, acceptors, current_proposal_id, acceptor_clients, pc,
                 broken, call, ok_values, phase2, proposes>>

\* The RPC from r to q ends in a transport error: the request or the reply
\* is lost, the deadline passes, or the peer or the connection is gone.
rpc_error(r, q) ==
  /\ rpc[r][q].kind \in {"request", "response"}
  /\ LET forced == rpc[r][q].kind = "request" /\ <<r, q>> \in broken
     IN /\ forced \/ MayFail(1)
        /\ faults' = IF forced THEN faults ELSE faults + 1
  /\ rpc' = [rpc EXCEPT ![r][q] = RpcError]
  /\ UNCHANGED <<mutex, tasks, acceptors, current_proposal_id, acceptor_clients,
                 proposal_id, proposal_value, state_file, pc, broken, call,
                 ok_values, phase2, stored, proposes>>

\* join_all returned: no future of r is still in flight.
Joined(r) ==
  \A q \in Nodes : rpc[r][q].kind # "request"

\* The replies that came back Ok(Ok(response)).
SuccessfulReplies(r) ==
  {q \in Nodes : rpc[r][q].kind = "response"}

NoFutures ==
  [q \in Nodes |-> NoRpc]

\* Lines 176-268: the local on_prepare, the prepare tally, the quorum check,
\* line 219, the choice of the value, and accept() up to its join_all: the
\* Accept futures and the local on_accept.
propose_accept(r, connected, disk1, disk2) ==
  /\ pc[r] = "prepare" /\ Joined(r)
  /\ LET local_prepare ==
           on_prepare(AcceptorOf(r),
                      PrepareRequest(local_request_id(current_proposal_id[r],
                                                      proposal_id[r])),
                      disk1)
         tally ==
           prepare_tally(results_of(rpc[r], remote_acceptors(r)),
                         [response_count |-> 0, highest_proposal_id |-> 0,
                          accepted_value |-> None])
     IN IF quorum_missing(tally.response_count, Len(acceptors))
        THEN /\ connected = {} /\ disk2 = DiskOk
             /\ AcceptorUpdate(r, local_prepare, disk1)
             /\ pc' = [pc EXCEPT ![r] = "idle"]
             /\ rpc' = [rpc EXCEPT ![r] = NoFutures]
             /\ call' = Returned(r, "PrepareQuorum")
             /\ UNCHANGED <<current_proposal_id, acceptor_clients>>
        ELSE LET pid == accept_proposal_id(current_proposal_id[r],
                                           tally.highest_proposal_id)
                 value == accept_value([call[r] EXCEPT !.accepted_value =
                                                         tally.accepted_value])
                 clients == ClientsAfter(r, connected)
                 local_accept ==
                   on_accept(local_prepare.self,
                             AcceptRequest(
                               local_request_id(pid,
                                                local_prepare.self.proposal_id),
                               value),
                             disk2)
             IN /\ connected \subseteq Connectable(r)
                /\ DiskChoice(local_prepare, disk1)
                /\ DiskChoice(local_accept, disk2)
                /\ faults' = faults + ConnectFailures(r, connected)
                               + Failed(local_prepare) + Failed(local_accept)
                /\ faults' = faults \/ MayFail(faults' - faults)
                /\ proposal_id' =
                     [proposal_id EXCEPT ![r] = local_accept.self.proposal_id]
                /\ proposal_value' =
                     [proposal_value EXCEPT ![r] = local_accept.self.proposal_value]
                /\ state_file' =
                     [state_file EXCEPT ![r] = local_accept.self.state_file]
                /\ stored' =
                     [stored EXCEPT ![r] =
                        StoredAfter(StoredAfter(@, local_prepare), local_accept)]
                /\ current_proposal_id' =
                     [current_proposal_id EXCEPT ![r] = pid]
                /\ acceptor_clients' = [acceptor_clients EXCEPT ![r] = clients]
                /\ rpc' = [rpc EXCEPT ![r] =
                             [q \in Nodes |->
                                IF q \in Range(remote_acceptors(r)) /\ q \in clients
                                THEN Request(AcceptRequest(pid, value))
                                ELSE NoRpc]]
                /\ call' = [call EXCEPT ![r].accepted_value = tally.accepted_value,
                                        ![r].local_accept_ok =
                                          local_accept.result.ok]
                /\ pc' = [pc EXCEPT ![r] = "accept"]
  /\ UNCHANGED <<mutex, tasks, acceptors, broken, ok_values, phase2, proposes>>

\* Lines 270-306: what accept() returns.
accept_result(r) ==
  LET tally == accept_tally(results_of(rpc[r], remote_acceptors(r)),
                            current_proposal_id[r], 0)
  IN IF tally.preempted THEN "Preempted"
     ELSE IF quorum_missing(tally.response_count, Len(acceptors))
          THEN "AcceptQuorum"
          ELSE "Ok"

\* Lines 221-236: what propose() returns, given what accept() returned.
propose_result(accepted_value, accepted) ==
  IF accepted_value = None THEN accepted
  ELSE IF accepted = "Ok" THEN "AlreadyAccepted" ELSE accepted

\* Lines 270-306 and 221-236: join_all of the accept futures returned; the
\* accept tally, and the return of accept() and of propose().
accept_return(r) ==
  /\ pc[r] = "accept" /\ Joined(r)
  /\ LET accepted == accept_result(r)
         result == propose_result(call[r].accepted_value, accepted)
     IN /\ phase2' = IF accepted = "Ok"
                     THEN phase2 \cup {[proposal_id |-> current_proposal_id[r],
                                        proposal_value |-> accept_value(call[r])]}
                     ELSE phase2
        /\ ok_values' = IF result = "Ok"
                        THEN ok_values \cup {Unwrap(call[r].value)}
                        ELSE ok_values
        /\ call' = Returned(r, result)
  /\ pc' = [pc EXCEPT ![r] = "idle"]
  /\ rpc' = [rpc EXCEPT ![r] = NoFutures]
  /\ UNCHANGED <<mutex, tasks, acceptors, current_proposal_id, acceptor_clients,
                 proposal_id, proposal_value, state_file, broken, stored, proposes, faults>>

\* Lines 114-117: the acceptor state Paxos::new takes from a state file.
new_state(file) ==
  LET state == read_state(file)
  IN IF state = None
     THEN [proposal_id |-> 0, proposal_value |-> None]
     ELSE Unwrap(state)

\* Lines 101-129: the process of replica r dies and is started again.  Its
\* propose call, its futures and its clients are gone, and so is every
\* connection a peer held to it; Paxos::new takes the acceptor state from what
\* read_state finds in the state file and starts the proposer from 0.
restart(r) ==
  /\ MayFail(1)
  /\ LET state == read_state(state_file[r])
     IN /\ proposal_id' = [proposal_id EXCEPT ![r] =
                             IF state = None THEN 0
                             ELSE Unwrap(state).proposal_id]
        /\ proposal_value' = [proposal_value EXCEPT ![r] =
                                IF state = None THEN None
                                ELSE Unwrap(state).proposal_value]
  /\ current_proposal_id' = [current_proposal_id EXCEPT ![r] = 0]
  /\ acceptor_clients' = [acceptor_clients EXCEPT ![r] = {}]
  /\ pc' = [pc EXCEPT ![r] = "idle"]
  /\ rpc' = [rpc EXCEPT ![r] = NoFutures]
  /\ broken' = {c \in broken : c[1] # r}
                 \cup {<<p, r>> : p \in {p \in Nodes : r \in acceptor_clients[p]}}
  /\ call' = IF call[r].result = "running" THEN Returned(r, "crashed") ELSE call
  /\ faults' = faults + 1
  /\ UNCHANGED <<mutex, tasks, acceptors, state_file, ok_values, phase2, stored, proposes>>

Next ==
  \/ \E r \in Nodes, value \in Values, connected \in SUBSET Nodes :
       propose_prepare(r, value, connected)
  \/ \E r \in Nodes, q \in Nodes, disk \in DiskOutcomes :
       AcceptorService_prepare(r, q, disk)
  \/ \E r \in Nodes, connected \in SUBSET Nodes,
        disk1 \in DiskOutcomes, disk2 \in DiskOutcomes :
       propose_accept(r, connected, disk1, disk2)
  \/ \E r \in Nodes, q \in Nodes, disk \in DiskOutcomes :
       AcceptorService_accept(r, q, disk)
  \/ \E r \in Nodes : accept_return(r)
  \/ \E r \in Nodes, q \in Nodes : rpc_error(r, q)
  \/ \E r \in Nodes : restart(r)

Spec ==
  Init /\ [][Next]_vars

\* ------------------------------------------------- a restarted cluster

\* The state files earlier runs leave behind: empty (never written), an id
\* alone (on_prepare, lines 317-320), or an id and the bytes of a value
\* (on_accept, lines 345-363).
StateFiles ==
  {<<>>} \cup {<<id>> \o v : id \in 0..MaxStoredId, v \in Values}

\* Paxos::new on every replica of a cluster of three whose state files exist
\* already: the acceptor state is what read_state finds, the proposer starts
\* from 0 with no client.
RestartedInit ==
  /\ acceptors = <<1, 2, 3>>
  /\ state_file \in [Nodes -> StateFiles]
  /\ proposal_id = [r \in Nodes |-> new_state(state_file[r]).proposal_id]
  /\ proposal_value = [r \in Nodes |-> new_state(state_file[r]).proposal_value]
  /\ current_proposal_id = [r \in Nodes |-> 0]
  /\ acceptor_clients = [r \in Nodes |-> {}]
  /\ pc = [r \in Nodes |-> "idle"]
  /\ rpc = [r \in Nodes |-> [q \in Nodes |-> NoRpc]]
  /\ broken = {}
  /\ call = [r \in Nodes |-> NoCall]
  /\ ok_values = {}
  /\ phase2 = {}
  /\ stored = [r \in Nodes |-> None]
  /\ proposes = 0
  /\ faults = 0
  /\ mutex = 0
  /\ tasks = <<>>

\* One propose call on the restarted cluster: every connect and every write
\* succeeds, a request or a reply may be lost.
FirstProposeNext ==
  \/ \E r \in Nodes, value \in Values :
       proposes = 0 /\ propose_prepare(r, value, Connectable(r))
  \/ \E r \in Nodes, q \in Nodes : AcceptorService_prepare(r, q, DiskOk)
  \/ \E r \in Nodes : propose_accept(r, {}, DiskOk, DiskOk)
  \/ \E r \in Nodes, q \in Nodes : AcceptorService_accept(r, q, DiskOk)
  \/ \E r \in Nodes : accept_return(r)
  \/ \E r \in Nodes, q \in Nodes : rpc_error(r, q)

RestartedSpec ==
  RestartedInit /\ [][FirstProposeNext]_vars

\* ------------------------------------------------- the acceptor server

\* AcceptorServer (main.rs) around the Acceptor of acceptor.rs: every request
\* runs as a task of its own, which takes the Mutex, runs the handler step by
\* step and gives the Mutex back when it returns.  The acceptor is replica 1 of
\* a cluster of one; its fields are proposal_id[1], proposal_value[1] and
\* state_file[1].

\* The requests a server is sent.
Requests ==
  {[kind |-> "prepare", message |-> PrepareRequest(id)] : id \in 0..MaxStoredId}
    \cup {[kind |-> "accept", message |-> AcceptRequest(id, v)] :
            id \in 0..MaxStoredId, v \in Values}

Tasks ==
  1..Len(tasks)

\* A Mutex that is never found held.
Mutex_lock_unguarded(holder) ==
  TRUE

\* Mutex::lock returns once nobody holds the Mutex.
Mutex_lock(holder) ==
  holder = 0

\* The task k moves to `at`, its reply being `reply`.
TaskAt(k, at, reply) ==
  [tasks EXCEPT ![k].at = at, ![k].reply = reply]

\* Acceptor::new: the state file is truncated, the acceptor starts from 0.
ServerInit ==
  /\ acceptors = <<1>>
  /\ current_proposal_id = [r \in Nodes |-> 0]
  /\ acceptor_clients = [r \in Nodes |-> {}]
  /\ proposal_id = [r \in Nodes |-> 0]
  /\ proposal_value = [r \in Nodes |-> None]
  /\ state_file = [r \in Nodes |-> <<>>]
  /\ pc = [r \in Nodes |-> "idle"]
  /\ rpc = [r \in Nodes |-> [q \in Nodes |-> NoRpc]]
  /\ broken = {}
  /\ call = [r \in Nodes |-> NoCall]
  /\ ok_values = {}
  /\ phase2 = {}
  /\ stored = [r \in Nodes |-> None]
  /\ proposes = 0
  /\ faults = 0
  /\ mutex = 0
  /\ tasks = <<>>

\* What the server leaves alone: the proposer and the bookkeeping of a run.
proposer_vars ==
  <<acceptors, current_proposal_id, acceptor_clients, pc, rpc, broken, call,
    ok_values, phase2, stored, proposes, faults>>

\* A request arrives and its handler task starts.
AcceptorServer_request(request) ==
  /\ Len(tasks) < MaxRequests
  /\ tasks' = Append(tasks, [kind |-> request.kind, message |-> request.message,
                             at |-> "lock", reply |-> NoRpc])
  /\ UNCHANGED <<mutex, proposal_id, proposal_value, state_file, proposer_vars>>

\* self.acceptor.lock().await
AcceptorServer_lock(k) ==
  /\ tasks[k].at = "lock"
  /\ Mutex_lock(mutex)
  /\ mutex' = k
  /\ tasks' = TaskAt(k, "compare", NoRpc)
  /\ UNCHANGED <<proposal_id, proposal_value, state_file, proposer_vars>>

\* The comparison of on_prepare and of on_accept: a request with a lower id
\* is answered with the current id and value.
Acceptor_compare(k) ==
  /\ tasks[k].at = "compare"
  /\ tasks' = IF tasks[k].message.proposal_id < proposal_id[1]
              THEN TaskAt(k, "return",
                          Response([proposal_id |-> proposal_id[1],
                                    proposal_value |-> proposal_value[1]]))
              ELSE TaskAt(k, "set", NoRpc)
  /\ UNCHANGED <<mutex, proposal_id, proposal_value, state_file, proposer_vars>>

\* The assignments to self.proposal_id and, in on_accept, self.proposal_value.
Acceptor_set(k) ==
  /\ tasks[k].at = "set"
  /\ proposal_id' = [proposal_id EXCEPT ![1] = tasks[k].message.proposal_id]
  /\ proposal_value' =
       IF tasks[k].kind = "accept"
       THEN [proposal_value EXCEPT ![1] = Some(tasks[k].message.proposal_value)]
       ELSE proposal_value
  /\ tasks' = TaskAt(k, "write", NoRpc)
  /\ UNCHANGED <<mutex, state_file, proposer_vars>>

\* The write to the state file, at the position the last write left: the id
\* in on_prepare, the id and the value in on_accept; an error returns.
Acceptor_write(k, ok) ==
  /\ tasks[k].at = "write"
  /\ IF ok
     THEN /\ state_file' =
               [state_file EXCEPT ![1] =
                  @ \o <<proposal_id[1]>>
                    \o (IF tasks[k].kind = "accept"
                        THEN Unwrap(proposal_value[1]) ELSE <<>>)]
          /\ tasks' = TaskAt(k, "sync", NoRpc)
     ELSE /\ tasks' = TaskAt(k, "return", ErrorReply)
          /\ UNCHANGED state_file
  /\ UNCHANGED <<mutex, proposal_id, proposal_value, proposer_vars>>

\* sync_all, and the response built from the fields; an error returns.
Acceptor_sync(k, ok) ==
  /\ tasks[k].at = "sync"
  /\ tasks' = IF ok
              THEN TaskAt(k, "return",
                          Response([proposal_id |-> proposal_id[1],
                                    proposal_value |->
                                      IF tasks[k].kind = "accept" THEN None
                                      ELSE proposal_value[1]]))
              ELSE TaskAt(k, "return", ErrorReply)
  /\ UNCHANGED <<mutex, proposal_id, proposal_value, state_file, proposer_vars>>

\* The handler returns its result and the MutexGuard is dropped.
AcceptorServer_return(k) ==
  /\ tasks[k].at = "return"
  /\ mutex' = 0
  /\ tasks' = [tasks EXCEPT ![k].at = "done"]
  /\ UNCHANGED <<proposal_id, proposal_value, state_file, proposer_vars>>

ServerNext ==
  \/ \E request \in Requests : AcceptorServer_request(request)
  \/ \E k \in Tasks : AcceptorServer_lock(k)
  \/ \E k \in Tasks : Acceptor_compare(k)
  \/ \E k \in Tasks : Acceptor_set(k)
  \/ \E k \in Tasks, ok \in BOOLEAN : Acceptor_write(k, ok)
  \/ \E k \in Tasks, ok \in BOOLEAN : Acceptor_sync(k, ok)
  \/ \E k \in Tasks : AcceptorServer_return(k)

ServerSpec ==
  ServerInit /\ [][ServerNext]_vars

\* ----------------------------------------------------------------- claims

\* The step in which the propose call of r returns (and is not cut short by
\* a restart).
Returns(r) ==
  /\ call[r].result = "running"
  /\ call'[r].result \notin {"running", "crashed"}

\* C1. Agreement: all propose calls that returned Ok were called with the
\* same value; at most one value is ever chosen.  Stated for the runs without
\* a fault, a part of the claim.
C1_Agreement ==
  faults = 0 => Cardinality(ok_values) <= 1

\* C2. Quorum intersection: when Phase 1 of a call succeeds under an id above
\* that of an accept() that already succeeded with value v, the value the
\* call carries into Phase 2 is v.  Stated for the runs without a fault, a
\* part of the claim.
C2_QuorumIntersection ==
  [][\A r \in Nodes :
       (pc[r] = "prepare" /\ pc'[r] = "accept" /\ faults' = 0)
       => \A p \in phase2 :
            (p.proposal_id < call[r].prepare_id)
            => accept_value(call'[r]) = p.proposal_value]_vars

\* C3. Monotonic promises: the promised id of an acceptor never decreases,
\* over on_prepare, on_accept, failed writes, crashes and restarts.
C3_MonotonicPromises ==
  [][\A r \in Nodes : proposal_id'[r] >= proposal_id[r]]_vars

\* C4. Persistence: what a restart would load from the state file is the last
\* record whose write and sync succeeded (no write having failed since),
\* whatever the value, an empty or a shorter one included.  Stated for the
\* runs in which no write failed and no replica restarted.
C4_Persistence ==
  \A r \in Nodes :
    (faults = 0 /\ stored[r] # None) => read_state(state_file[r]) = stored[r]

\* The successful replies of a phase, the local acceptor's reply included.
RepliesWithLocal(r, local_ok) ==
  Cardinality(SuccessfulReplies(r)) + (IF local_ok THEN 1 ELSE 0)

\* C5. Quorum threshold: a call whose successful replies, the local one
\* included, number less than floor(N/2)+1 fails for want of a quorum, in
\* Phase 1 and (no reply preempting it) in Phase 2.
C5_QuorumThreshold ==
  [][\A r \in Nodes :
       /\ (/\ pc[r] = "prepare" /\ pc'[r] # "prepare"
           /\ call'[r].result # "crashed"
           /\ RepliesWithLocal(r, TRUE) < Len(acceptors) \div 2 + 1)
          => call'[r].result = "PrepareQuorum"
       /\ (/\ pc[r] = "accept" /\ Returns(r)
           /\ RepliesWithLocal(r, call[r].local_accept_ok)
                < Len(acceptors) \div 2 + 1
           /\ \A q \in SuccessfulReplies(r) :
                rpc[r][q].message.proposal_id <= current_proposal_id[r])
          => call'[r].result = "AcceptQuorum"]_vars

\* C6. Preemption: a call that gets a successful Accept reply with an id
\* above the id it prepared ends as preempted.  Stated for the runs without
\* a fault, a part of the claim.
C6_Preemption ==
  [][\A r \in Nodes :
       (/\ pc[r] = "accept" /\ Returns(r) /\ faults = 0
        /\ \E q \in SuccessfulReplies(r) :
             rpc[r][q].message.proposal_id > call[r].prepare_id)
       => call'[r].result = "Preempted"]_vars

\* Every acceptor of the cluster holds the accepted value x.
AllAccepted(x) ==
  \A q \in Nodes : proposal_value[q] = Some(x)

\* C7. Adoption: once every acceptor has accepted x, no step of a propose
\* call changes an acceptor's value, sends another value in an Accept
\* request, or returns Ok for another value.  Stated for the runs without a
\* fault, a part of the claim.
C7_Adoption ==
  [][\A x \in Values :
       (AllAccepted(x) /\ faults' = 0)
       => /\ AllAccepted(x)'
          /\ \A r, q \in Nodes :
               (pc'[r] = "accept" /\ rpc'[r][q].kind = "request")
               => rpc'[r][q].message.proposal_value = x
          /\ \A r \in Nodes :
               (Returns(r) /\ call'[r].result = "Ok")
               => call[r].value = Some(x)]_vars

\* C8. In a cluster of one, no propose call ends in an error and no RPC is
\* ever sent.
C8_SingleReplica ==
  Len(acceptors) = 1
  => \A r \in Nodes :
       /\ call[r].result \in {"none", "running", "Ok", "crashed"}
       /\ \A q \in Nodes : rpc[r][q] = NoRpc

\* C8 witness: in a cluster of one, a second or later call returned Ok after a
\* write had failed or the replica had restarted.
C8_Witness ==
  /\ Len(acceptors) = 1
  /\ proposes >= 2 /\ faults >= 1
  /\ call[1].result = "Ok"
  /\ proposal_value[1] # None

\* C9. Fresh agreement: in a cluster of three fresh replicas with no fault,
\* the first propose call returns Ok and then every replica holds its value
\* under the id of the proposal.
C9_FreshAgreement ==
  \A r \in Nodes :
    (/\ Len(acceptors) = 3 /\ proposes = 1 /\ faults = 0
     /\ call[r].result \notin {"none", "running"})
    => /\ call[r].result = "Ok"
       /\ \A q \in Nodes :
            /\ proposal_value[q] # None
            /\ ok_values = {Unwrap(proposal_value[q])}
            /\ proposal_id[q] = current_proposal_id[r]

\* The handler of q answered r's request in this step.
Served(r, q) ==
  rpc[r][q].kind = "request" /\ rpc'[r][q].kind \in {"response", "error_reply"}

\* C10. Rejection paths change nothing: on_prepare with an id at most the
\* promised one and on_accept with an id below it leave the promised id, the
\* accepted value and the state file as they are and reply with the current
\* id and value; the same on_prepare again gives the same reply.
C10_RejectionFrames ==
  [][\A r, q \in Nodes :
       (/\ Served(r, q)
        /\ \/ (pc[r] = "prepare"
               /\ rpc[r][q].message.proposal_id <= proposal_id[q])
           \/ (pc[r] = "accept"
               /\ rpc[r][q].message.proposal_id < proposal_id[q]))
       => /\ proposal_id'[q] = proposal_id[q]
          /\ proposal_value'[q] = proposal_value[q]
          /\ state_file'[q] = state_file[q]
          /\ rpc'[r][q] = Response([proposal_id |-> proposal_id[q],
                                    proposal_value |-> proposal_value[q]])
          /\ (pc[r] = "prepare")
             => LET again == on_prepare(AcceptorOf(q)', rpc[r][q].message, DiskOk)
                IN /\ again.self = AcceptorOf(q)'
                   /\ Reply(again.result) = rpc'[r][q]]_vars

\* C10 witness: an acceptor has answered an Accept request from the rejecting
\* branch, with a promised id above the request's and a value it holds.
C10_Witness ==
  \E r, q \in Nodes :
    /\ pc[r] = "accept" /\ rpc[r][q].kind = "response"
    /\ rpc[r][q].message.proposal_id > current_proposal_id[r]
    /\ rpc[r][q].message.proposal_value # None

\* The acceptor state replica q holds in memory.
InMemory(q) ==
  [proposal_id |-> proposal_id[q], proposal_value |-> proposal_value[q]]

\* C11. Replies reflect durable state: when a handler returns a successful
\* reply, the promised id and the accepted value in memory are what a restart
\* would load from the state file, and the reply reports that id; a handler
\* whose write failed replies with an error.  Stated for the handlers that
\* run after a write on the acceptor failed, a part of the claim.
C11_DurableReplies ==
  [][\A r, q \in Nodes :
       (Served(r, q) /\ IsDirty(stored[q]))
       => /\ (faults' > faults) => rpc'[r][q] = ErrorReply
          /\ (rpc'[r][q].kind = "response")
             => /\ InMemory(q)' = new_state(state_file'[q])
                /\ rpc'[r][q].message.proposal_id
                     = new_state(state_file'[q]).proposal_id]_vars

\* Phase 1 of r's call ends in this step, with or without a quorum.
EndsPhase1(r) ==
  pc[r] = "prepare" /\ pc'[r] # "prepare" /\ call'[r].result # "crashed"

\* C12. Local participation in Phase 1: when Phase 1 of a call with id p ends,
\* the local acceptor has promised at least p, and a value it had accepted is
\* in the tally.  Stated for the runs without a fault, a part of the claim.
C12_LocalPrepare ==
  [][\A r \in Nodes :
       (EndsPhase1(r) /\ faults' = 0)
       => /\ proposal_id'[r] >= call[r].prepare_id
          /\ (proposal_value[r] # None /\ pc'[r] = "accept")
             => call'[r].accepted_value # None]_vars

\* C13. One id per call: every Accept request of a call carries the id of
\* the call's Prepare requests.  Stated for the requests to the remote
\* acceptors in the runs without a fault, a part of the claim.
C13_AcceptPid ==
  [][\A r, q \in Nodes :
       (/\ pc[r] = "prepare" /\ pc'[r] = "accept" /\ faults' = 0
        /\ rpc'[r][q].kind = "request")
       => rpc'[r][q].message.proposal_id = call[r].prepare_id]_vars

\* The Phase 1 replies of r that carry an accepted value.
ValueReplies(r) ==
  {q \in SuccessfulReplies(r) : rpc[r][q].message.proposal_value # None}

\* C14. Adoption by the highest id: when several Phase 1 replies carry a
\* value, the value taken into Phase 2 is the one of a reply with the highest
\* id among them.  Checked under RestartedSpec.
C14_HighestPidValue ==
  [][\A r \in Nodes :
       (pc[r] = "prepare" /\ pc'[r] = "accept" /\ ValueReplies(r) # {})
       => \E q \in ValueReplies(r) :
            /\ \A o \in ValueReplies(r) :
                 rpc[r][o].message.proposal_id <= rpc[r][q].message.proposal_id
            /\ call'[r].accepted_value = rpc[r][q].message.proposal_value]_vars

\* C15. A local failure aborts the call: a propose call whose local on_accept
\* returned an error does not return Ok.
C15_LocalErrorAborts ==
  [][\A r \in Nodes :
       (pc[r] = "accept" /\ Returns(r) /\ ~call[r].local_accept_ok)
       => call'[r].result # "Ok"]_vars

\* The handler of q ran on_accept for r's request in this step.
ServedAccept(r, q) ==
  pc[r] = "accept" /\ Served(r, q)

\* The handler of q ran on_prepare for r's request in this step.
ServedPrepare(r, q) ==
  pc[r] = "prepare" /\ Served(r, q)

\* C16 as stated. Once set, the accepted value of an acceptor is never
\* replaced by a different one in an on_accept.  Stated for the requests of
\* the calls that got no accepted value in Phase 1, a part of the claim;
\* checked under RestartedSpec.
C16_ValueNeverChanges ==
  [][\A r, q \in Nodes :
       (ServedAccept(r, q) /\ call[r].accepted_value = None)
       => (proposal_value[q] # None
           => proposal_value'[q] = proposal_value[q])]_vars

\* C16 amended. Once set, the accepted value of an acceptor is never changed
\* by on_prepare, and on_accept replaces it only when the id of the request
\* is at least the promised id, by the value of the request and under the
\* id of the request; an on_accept with a lower id leaves it.  Checked under
\* RestartedSpec.
C16_ReplacedOnlyByAccept ==
  [][\A r, q \in Nodes :
       /\ (ServedPrepare(r, q) /\ proposal_value[q] # None)
          => proposal_value'[q] = proposal_value[q]
       /\ (ServedAccept(r, q) /\ proposal_value[q] # None
           /\ proposal_value'[q] # proposal_value[q])
          => /\ rpc[r][q].message.proposal_id >= proposal_id[q]
             /\ proposal_value'[q] = Some(rpc[r][q].message.proposal_value)
             /\ proposal_id'[q] = rpc[r][q].message.proposal_id
       /\ (ServedAccept(r, q) /\ proposal_value[q] # None
           /\ rpc[r][q].message.proposal_id < proposal_id[q])
          => proposal_value'[q] = proposal_value[q]
       /\ (pc[r] = "prepare" /\ pc'[r] = "accept" /\ proposal_value[r] # None
           /\ proposal_value'[r] # proposal_value[r])
          => /\ proposal_value'[r] = Some(accept_value(call'[r]))
             /\ proposal_id'[r] = proposal_id[r]]_vars

\* C18. Ids are unique to a proposal: no two Accept requests carry the same
\* id with different values.  Stated for the requests in flight at the same
\* time, a part of the claim.
C18_UniquePids ==
  \A r1, q1, r2, q2 \in Nodes :
    (/\ pc[r1] = "accept" /\ rpc[r1][q1].kind = "request"
     /\ pc[r2] = "accept" /\ rpc[r2][q2].kind = "request"
     /\ rpc[r1][q1].message.proposal_id = rpc[r2][q2].message.proposal_id)
    => rpc[r1][q1].message.proposal_value = rpc[r2][q2].message.proposal_value

\* The handler of q answered r's Accept request from the rejecting branch.
Rejected(r, q) ==
  /\ rpc'[r][q].kind = "response"
  /\ rpc'[r][q].message.proposal_id > rpc[r][q].message.proposal_id

\* C19. An acceptor honours its promise: an acceptor that has promised an id
\* above the id a call prepared with takes no value from that call, neither
\* from its Accept request nor, being the local acceptor, from the local
\* on_accept.  Stated for the runs without a fault, a part of the claim.
C19_HonoursPromise ==
  [][\A r, q \in Nodes :
       /\ (/\ ServedAccept(r, q) /\ faults' = 0
           /\ call[r].prepare_id < proposal_id[q])
          => Rejected(r, q)
       /\ (/\ pc[r] = "prepare" /\ pc'[r] = "accept" /\ faults' = 0
           /\ call[r].prepare_id < proposal_id[r])
          => /\ proposal_value'[r] = proposal_value[r]
             /\ state_file'[r] = state_file[r]]_vars

\* The acceptors whose last successful write stored the value v.
StoredValue(v) ==
  {q \in Nodes : /\ stored[q] # None /\ ~IsDirty(stored[q])
                 /\ Unwrap(stored[q]).proposal_value = Some(v)}

\* C20. A call that returns Ok has its value stored by a majority: at least
\* floor(N/2)+1 acceptors, the local one included, took the accepting branch
\* of on_accept for the call and stored its value.  Stated for the first
\* call of a run, when no other call has written anything.
C20_OkMeansMajority ==
  [][\A r \in Nodes :
       (Returns(r) /\ call'[r].result = "Ok" /\ proposes = 1)
       => Cardinality(StoredValue(Unwrap(call[r].value)))
            >= Len(acceptors) \div 2 + 1]_vars

\* C16 witness: an acceptor has just taken a value from an Accept request it
\* answered from the accepting branch, and its state file still ends with
\* bytes of the longer value it held before.
C16_Witness ==
  \E r, q \in Nodes :
    /\ pc[r] = "accept" /\ rpc[r][q].kind = "response"
    /\ rpc[r][q].message = AcceptResponse(current_proposal_id[r], None)
    /\ proposal_value[q] = Some(accept_value(call[r]))
    /\ Len(state_file[q]) > 1 + Len(accept_value(call[r]))

\* The task k holds the lock: it is between its comparison and its return.
InBody(k) ==
  tasks[k].at \in {"compare", "set", "write", "sync", "return"}

\* C17. Acceptor operations on one replica are serialized: at most one
\* handler is between its comparison and its reply, it is the one that holds
\* the Mutex, and from its assignment to its reply the promised id (and the
\* value, for an Accept) in memory is the one it set.  Checked under
\* ServerSpec.
C17_Serialized ==
  /\ \A k, o \in Tasks : (InBody(k) /\ InBody(o)) => k = o
  /\ \A k \in Tasks :
       /\ InBody(k) => mutex = k
       /\ tasks[k].at \in {"write", "sync"}
          => /\ proposal_id[1] = tasks[k].message.proposal_id
             /\ tasks[k].kind = "accept"
                => proposal_value[1] = Some(tasks[k].message.proposal_value)

\* C17 witness: a Prepare and an Accept race on the replica: one handler is
\* at its sync while the other waits for the Mutex.
C17_Witness ==
  \E k, o \in Tasks :
    /\ tasks[k].at = "sync" /\ tasks[o].at = "lock"
    /\ tasks[k].kind # tasks[o].kind
    /\ tasks[o].message.proposal_id > tasks[k].message.proposal_id

====
